---- MODULE Spec2Model ----
(***************************************************************************)
(* ModelBase (model_api/cpp/models/src/model_base.cpp): the wrapper that   *)
(* loads a model into an inference adapter, resolves input layouts and     *)
(* dispatches single inference requests through preprocess / adapter /     *)
(* postprocess.                                                            *)
(*                                                                         *)
(* Two specifications share the variables:                                 *)
(*   LayoutSpec  getInputLayout called repeatedly on arbitrary inputs,     *)
(*               starting from an arbitrary layout configuration;          *)
(*   Spec        the load / infer life cycle of one wrapper, one call at   *)
(*               a time (the code has no threads and no locks).            *)
(***************************************************************************)
EXTENDS Integers, Sequences, FiniteSets, TLC

(* ------------------------------ bounds --------------------------------- *)
\* getInputLayout calls in one behaviour of LayoutSpec
MaxCalls == 3
\* load calls in one behaviour of Spec
MaxLoads == 2
\* infer calls in one behaviour of Spec
MaxInfers == 2

(* --------------------------- value domains ----------------------------- *)
\* a default-constructed ov::Layout; ov::Layout::empty() is true of it only
EmptyLayout == ""
\* tensor names (ov::Output::get_any_name)
Names == {"data", "image", "info"}
\* layouts a configuration or a model annotation can carry
Layouts == {"NCHW", "NHWC"}
\* static shapes of the modelled inputs
Shapes == {<<1, 3>>, <<1, 3, 8, 8>>, <<1, 8, 8, 3>>}
\* an input port: its name, its shape, the layout annotated on the graph
Inputs == [name : Names, shape : Shapes, layout : Layouts \cup {EmptyLayout}]
\* std::map<std::string, ov::Layout> with no entry
EmptyMap == [k \in {} |-> EmptyLayout]
\* the configurations the constructor can hand to the wrapper
LayoutMaps == UNION {[S -> Layouts] : S \in SUBSET Names}

VARIABLES
    \* ---- wrapper fields ----
    inputsLayouts,      \* std::map name -> layout
    inferenceAdapter,   \* std::shared_ptr<InferenceAdapter>
    modelFile,          \* path of the model description
    \* ---- log ----
    warnings,           \* number of slog::warn lines emitted
    \* ---- layout resolver bookkeeping ----
    calls,              \* getInputLayout calls made
    initialLayouts,     \* inputsLayouts as configured
    lastCall,           \* the last getInputLayout call: input, map before, outcome
    \* ---- control ----
    pc,                 \* position of the single caller
    \* ---- load ----
    nLoads,             \* load calls made
    before,             \* wrapper fields at the start of the current/last load
    model,              \* the std::shared_ptr<ov::Model> local of prepareModel
    loadSteps,          \* steps the current/last load has executed, in order
    loadReturn,         \* how the current/last load ended
    nCompile,           \* loadModel requests the adapters have received
    lastCompile,        \* the last loadModel request an adapter received
    \* ---- infer ----
    nInfers,            \* infer calls made
    inputs,             \* InferenceInput local
    internalModelData,  \* local returned by preprocess
    result,             \* InferenceResult local
    retVal,             \* std::unique_ptr<ResultBase> local
    prepared,           \* what this invocation's preprocess produced
    produced,           \* what this invocation's postprocess produced
    raised,             \* the exception thrown inside this invocation, and by whom
    nAdapterInfer,      \* adapter infer calls over all invocations
    adapterCalls,       \* adapter infer calls of the current/last invocation
    postCalls,          \* postprocess calls of the current/last invocation
    lastAdapterCall,    \* the last infer call the adapter received, with its outputs
    inferReturn         \* how the current/last infer ended

layoutVars == <<inputsLayouts, warnings, calls, initialLayouts, lastCall>>
loadVars == <<inferenceAdapter, modelFile, nLoads, before, model, loadSteps,
              loadReturn, nCompile, lastCompile>>
inferVars == <<nInfers, inputs, internalModelData, result, retVal, prepared,
               produced, raised, nAdapterInfer, adapterCalls, postCalls,
               lastAdapterCall, inferReturn>>
vars == <<layoutVars, loadVars, inferVars, pc>>

(* ============================ Layout Resolver ========================== *)

\* ov::layout::get_layout(input): the layout annotated on the graph, or empty
get_layout(input) == input.layout

\* utils/common.hpp getLayoutFromShape: a default chosen from the rank and
\* the candidate channel dimension
getLayoutFromShape(shape) ==
    IF Len(shape) = 2 THEN "NC"
    ELSE IF Len(shape) = 3
         THEN (IF shape[1] >= 1 /\ shape[1] <= 4 THEN "CHW" ELSE "HWC")
         ELSE (IF shape[2] >= 1 /\ shape[2] <= 4 THEN "NCHW" ELSE "NHWC")

\* std::map::operator[]: the mapped value; a missing key is inserted with a
\* default-constructed (empty) layout first
MapIndex(m, k) ==
    IF k \in DOMAIN m
    THEN [value |-> m[k], map |-> m]
    ELSE [value |-> EmptyLayout, map |-> m @@ (k :> EmptyLayout)]

\* inputsLayouts.begin()->second, used when the map has exactly one entry
MapBeginValue(m) == m[CHOOSE k \in DOMAIN m : TRUE]

Resolved(l, m, w) == [layout |-> l, inputsLayouts |-> m, warn |-> w, error |-> "none"]

\* variant: the configured entry wins over the annotation of the graph
getInputLayout_ConfigFirst(input, layouts) ==
    IF input.name \in DOMAIN layouts
    THEN Resolved(layouts[input.name], layouts, 0)
    ELSE Resolved(get_layout(input), layouts, 0)

\* variant: a single configured entry is looked up by name like any other
getInputLayout_ByName(input, layouts) ==
    LET layout == get_layout(input) IN
    IF layout = EmptyLayout
    THEN IF DOMAIN layouts = {}
         THEN Resolved(getLayoutFromShape(input.shape), layouts, 1)
         ELSE LET r == MapIndex(layouts, input.name) IN Resolved(r.value, r.map, 0)
    ELSE Resolved(layout, layouts, 0)

\* variant: the warning is written before the configuration is looked at
getInputLayout_WarnAlways(input, layouts) ==
    LET layout == get_layout(input) IN
    IF layout = EmptyLayout
    THEN IF DOMAIN layouts = {}
         THEN Resolved(getLayoutFromShape(input.shape), layouts, 1)
         ELSE IF Cardinality(DOMAIN layouts) = 1
              THEN Resolved(MapBeginValue(layouts), layouts, 1)
              ELSE LET r == MapIndex(layouts, input.name) IN Resolved(r.value, r.map, 1)
    ELSE Resolved(layout, layouts, 0)

\* ModelBase::getInputLayout: the returned layout, the map afterwards, the
\* number of warnings written, the exception thrown (the code throws none)
getInputLayout(input, layouts) ==
    LET layout == get_layout(input) IN
    IF layout = EmptyLayout
    THEN IF DOMAIN layouts = {}
         THEN Resolved(getLayoutFromShape(input.shape), layouts, 1)
         ELSE IF Cardinality(DOMAIN layouts) = 1
              THEN Resolved(MapBeginValue(layouts), layouts, 0)
              ELSE LET r == MapIndex(layouts, input.name) IN Resolved(r.value, r.map, 0)
    ELSE Resolved(layout, layouts, 0)

NoCall == [valid |-> FALSE, input |-> [name |-> "data", shape |-> <<1, 3>>, layout |-> EmptyLayout],
           mapBefore |-> EmptyMap, layout |-> EmptyLayout, warned |-> 0, error |-> "none"]

\* one call of getInputLayout on some input
GetInputLayout ==
    /\ pc = "idle"
    /\ calls < MaxCalls
    /\ \E input \in Inputs :
         LET r == getInputLayout(input, inputsLayouts) IN
         /\ inputsLayouts' = r.inputsLayouts
         /\ warnings' = warnings + r.warn
         /\ lastCall' = [valid |-> TRUE, input |-> input, mapBefore |-> inputsLayouts,
                         layout |-> r.layout, warned |-> r.warn, error |-> r.error]
    /\ calls' = calls + 1
    /\ UNCHANGED <<initialLayouts, loadVars, inferVars, pc>>

(* ============================= Model Loader ============================ *)

\* an empty std::shared_ptr<InferenceAdapter>
NullAdapter == [kind |-> "null", id |-> 0]
\* adapters a caller can pass to load
ExternalAdapters == {[kind |-> "external", id |-> 1]}
\* std::make_shared<OpenVINOInferenceAdapter>(): a new object on every call
DefaultAdapter(n) == [kind |-> "default", id |-> n]

\* paths the wrapper can be constructed with; only the first one exists
Files == {"model.xml", "missing.xml"}
FileExists(f) == f = "model.xml"
\* batch sizes a model description or a reshaping hook can leave
BatchSizes == {1, 2}

\* no ov::Model (the local before read_model, or after unwinding)
NoModel == [valid |-> FALSE, batch |-> 0, hooked |-> FALSE]

\* the fields of the wrapper
Wrapper == [inferenceAdapter |-> inferenceAdapter, inputsLayouts |-> inputsLayouts,
            modelFile |-> modelFile]

NoCompile == [load |-> 0, adapter |-> NullAdapter, model |-> NoModel, device |-> "none"]

\* ov::set_batch(model, n)
set_batch(m, n) == [m EXCEPT !.batch = n]

\* ModelBase::load up to the call of prepareModel: the adapter handle is set
Load ==
    /\ pc = "idle"
    /\ nLoads < MaxLoads
    /\ \E adapter \in {NullAdapter} \cup ExternalAdapters :
         inferenceAdapter' = IF adapter = NullAdapter
                             THEN DefaultAdapter(nLoads + 1)
                             ELSE adapter
    /\ before' = Wrapper
    /\ nLoads' = nLoads + 1
    /\ model' = NoModel
    /\ loadSteps' = <<>>
    /\ loadReturn' = [load |-> nLoads + 1, status |-> "running"]
    /\ pc' = "load_read"
    /\ UNCHANGED <<modelFile, nCompile, lastCompile, layoutVars, inferVars>>

\* prepareModel: core.read_model(modelFile)
ReadModel ==
    /\ pc = "load_read"
    /\ loadSteps' = Append(loadSteps, "read_model")
    /\ IF FileExists(modelFile)
       THEN /\ \E b \in BatchSizes : model' = [valid |-> TRUE, batch |-> b, hooked |-> FALSE]
            /\ pc' = "load_hook"
            /\ UNCHANGED loadReturn
       ELSE /\ model' = NoModel
            /\ pc' = "idle"
            /\ loadReturn' = [loadReturn EXCEPT !.status = "ModelReadError"]
    /\ UNCHANGED <<inferenceAdapter, modelFile, nLoads, before, nCompile, lastCompile,
                   layoutVars, inferVars>>

\* prepareModel: the prepareInputsOutputs hook of the subclass
PrepareInputsOutputs ==
    /\ pc = "load_hook"
    /\ loadSteps' = Append(loadSteps, "prepareInputsOutputs")
    /\ \/ /\ \E b \in BatchSizes : model' = [model EXCEPT !.hooked = TRUE, !.batch = b]
          /\ pc' = "load_batch"
          /\ UNCHANGED loadReturn
       \/ /\ model' = NoModel
          /\ pc' = "idle"
          /\ loadReturn' = [loadReturn EXCEPT !.status = "HookError"]
    /\ UNCHANGED <<inferenceAdapter, modelFile, nLoads, before, nCompile, lastCompile,
                   layoutVars, inferVars>>

\* variant: the batch size is left as the hook left it
SetBatch_Forgotten ==
    /\ pc = "load_batch"
    /\ loadSteps' = Append(loadSteps, "set_batch")
    /\ model' = model
    /\ pc' = "load_compile"
    /\ UNCHANGED <<loadReturn, inferenceAdapter, modelFile, nLoads, before, nCompile,
                   lastCompile, layoutVars, inferVars>>

\* prepareModel: ov::set_batch(model, 1)
SetBatch ==
    /\ pc = "load_batch"
    /\ loadSteps' = Append(loadSteps, "set_batch")
    /\ \/ /\ model' = set_batch(model, 1)
          /\ pc' = "load_compile"
          /\ UNCHANGED loadReturn
       \/ /\ model' = NoModel
          /\ pc' = "idle"
          /\ loadReturn' = [loadReturn EXCEPT !.status = "SetBatchError"]
    /\ UNCHANGED <<inferenceAdapter, modelFile, nLoads, before, nCompile, lastCompile,
                   layoutVars, inferVars>>

\* prepareModel: inferenceAdapter->loadModel(model, core, "AUTO", config)
LoadModel ==
    /\ pc = "load_compile"
    /\ loadSteps' = Append(loadSteps, "loadModel")
    /\ nCompile' = nCompile + 1
    /\ lastCompile' = [load |-> nLoads, adapter |-> inferenceAdapter, model |-> model,
                       device |-> "AUTO"]
    /\ \E s \in {"ok", "CompilationError"} : loadReturn' = [loadReturn EXCEPT !.status = s]
    /\ model' = NoModel
    /\ pc' = "idle"
    /\ UNCHANGED <<inferenceAdapter, modelFile, nLoads, before, layoutVars, inferVars>>

(* ========================= Inference Dispatcher ======================== *)

\* raw inputs a caller can pass
InputDatas == {"img1", "img2"}
\* values an adapter can answer with
OutputValues == {"out1", "out2"}
\* exceptions an adapter's infer can throw
AdapterErrors == {"InferenceError", "DeviceError"}
\* task-specific contents a postprocess can produce
TaskValues == {"cat", "dog"}

\* a default-constructed InferenceInput / InternalModelData pointer
NoData == [data |-> "none", req |-> 0]
NoOutputs == [val |-> "none", from |-> NoData]
\* a default-constructed InferenceResult
EmptyResult == [outputsData |-> NoOutputs, internalModelData |-> NoData]
NoRetVal == [valid |-> FALSE, task |-> "none", base |-> EmptyResult]
NoPrepared == [inputs |-> NoData, internalModelData |-> NoData]
NoRaise == [by |-> "none", error |-> "none"]
NoAdapterCall == [req |-> 0, adapter |-> NullAdapter, inputs |-> NoData, outputs |-> NoOutputs]

\* static_cast<ResultBase&>(result): the raw result fields
ResultBase(r) == [outputsData |-> r.outputsData, internalModelData |-> r.internalModelData]

\* variant: the returned object is replaced by a copy of the raw result
AssignBase_Whole(ret, r) == [ret EXCEPT !.base = ResultBase(r), !.task = "none"]

\* *retVal = static_cast<ResultBase&>(result)
AssignBase(ret, r) == [ret EXCEPT !.base = ResultBase(r)]

\* the locals of infer are gone once it returns or unwinds
LocalsGone ==
    /\ inputs' = NoData
    /\ internalModelData' = NoData
    /\ result' = EmptyResult
    /\ retVal' = NoRetVal

\* ModelBase::infer up to and including preprocess(inputData, inputs)
Preprocess ==
    /\ pc = "idle"
    /\ nInfers < MaxInfers
    /\ inferenceAdapter # NullAdapter
    /\ nInfers' = nInfers + 1
    /\ adapterCalls' = 0
    /\ postCalls' = 0
    /\ produced' = NoRetVal
    /\ \E d \in InputDatas :
         LET t == [data |-> d, req |-> nInfers + 1] IN
         \/ /\ inputs' = t
            /\ internalModelData' = t
            /\ result' = EmptyResult
            /\ retVal' = NoRetVal
            /\ prepared' = [inputs |-> t, internalModelData |-> t]
            /\ raised' = NoRaise
            /\ inferReturn' = [req |-> nInfers + 1, status |-> "running", value |-> NoRetVal]
            /\ pc' = "infer_adapter"
         \/ /\ LocalsGone
            /\ prepared' = NoPrepared
            /\ raised' = [by |-> "preprocess", error |-> "PreprocessError"]
            /\ inferReturn' = [req |-> nInfers + 1, status |-> "PreprocessError",
                               value |-> NoRetVal]
            /\ pc' = "idle"
    /\ UNCHANGED <<nAdapterInfer, lastAdapterCall, layoutVars, loadVars>>

\* the adapter answers the call made with the local inputs
AdapterAnswers(n) ==
    \E o \in OutputValues :
       LET out == [val |-> o, from |-> inputs] IN
       /\ lastAdapterCall' = [req |-> nInfers, adapter |-> inferenceAdapter,
                              inputs |-> inputs, outputs |-> out]
       /\ adapterCalls' = adapterCalls + n
       /\ nAdapterInfer' = nAdapterInfer + n
       /\ result' = [outputsData |-> out, internalModelData |-> internalModelData]
       /\ internalModelData' = NoData
       /\ pc' = "infer_post"
       /\ UNCHANGED <<inputs, retVal, raised, inferReturn>>

\* the adapter throws e; infer unwinds
AdapterThrows(e) ==
    /\ lastAdapterCall' = [req |-> nInfers, adapter |-> inferenceAdapter,
                           inputs |-> inputs, outputs |-> NoOutputs]
    /\ adapterCalls' = adapterCalls + 1
    /\ nAdapterInfer' = nAdapterInfer + 1
    /\ raised' = [by |-> "adapter", error |-> e]
    /\ inferReturn' = [inferReturn EXCEPT !.status = e]
    /\ LocalsGone
    /\ pc' = "idle"

\* variant: a failed adapter call is repeated once
AdapterInfer_Retry ==
    /\ pc = "infer_adapter"
    /\ \/ AdapterAnswers(1)
       \/ AdapterAnswers(2)
    /\ UNCHANGED <<nInfers, prepared, produced, postCalls, layoutVars, loadVars>>

\* variant: a failure of the adapter is caught and postprocess runs on an
\* empty result
AdapterInfer_Swallow ==
    /\ pc = "infer_adapter"
    /\ \/ AdapterAnswers(1)
       \/ \E e \in AdapterErrors :
             /\ lastAdapterCall' = [req |-> nInfers, adapter |-> inferenceAdapter,
                                    inputs |-> inputs, outputs |-> NoOutputs]
             /\ adapterCalls' = adapterCalls + 1
             /\ nAdapterInfer' = nAdapterInfer + 1
             /\ raised' = [by |-> "adapter", error |-> e]
             /\ result' = [outputsData |-> NoOutputs, internalModelData |-> internalModelData]
             /\ internalModelData' = NoData
             /\ pc' = "infer_post"
             /\ UNCHANGED <<inputs, retVal, inferReturn>>
    /\ UNCHANGED <<nInfers, prepared, produced, postCalls, layoutVars, loadVars>>

\* infer: result.outputsData = inferenceAdapter->infer(inputs);
\*        result.internalModelData = std::move(internalModelData)
AdapterInfer ==
    /\ pc = "infer_adapter"
    /\ \/ AdapterAnswers(1)
       \/ \E e \in AdapterErrors : AdapterThrows(e)
    /\ UNCHANGED <<nInfers, prepared, produced, postCalls, layoutVars, loadVars>>

\* infer: auto retVal = this->postprocess(result)
Postprocess ==
    /\ pc = "infer_post"
    /\ postCalls' = postCalls + 1
    /\ \/ /\ \E t \in TaskValues, b \in {EmptyResult, ResultBase(result)} :
               /\ retVal' = [valid |-> TRUE, task |-> t, base |-> b]
               /\ produced' = [valid |-> TRUE, task |-> t, base |-> b]
          /\ pc' = "infer_merge"
          /\ UNCHANGED <<inputs, internalModelData, result, raised, inferReturn>>
       \/ /\ LocalsGone
          /\ raised' = [by |-> "postprocess", error |-> "PostprocessError"]
          /\ inferReturn' = [inferReturn EXCEPT !.status = "PostprocessError"]
          /\ pc' = "idle"
          /\ UNCHANGED produced
    /\ UNCHANGED <<nInfers, prepared, nAdapterInfer, adapterCalls, lastAdapterCall,
                   layoutVars, loadVars>>

\* infer: *retVal = static_cast<ResultBase&>(result); return retVal
MergeResult ==
    /\ pc = "infer_merge"
    /\ inferReturn' = [inferReturn EXCEPT !.status = "ok", !.value = AssignBase(retVal, result)]
    /\ LocalsGone
    /\ pc' = "idle"
    /\ UNCHANGED <<nInfers, prepared, produced, raised, nAdapterInfer, adapterCalls,
                   postCalls, lastAdapterCall, layoutVars, loadVars>>

(* ============================ specifications =========================== *)

InitCommon ==
    /\ warnings = 0
    /\ calls = 0
    /\ lastCall = NoCall
    /\ pc = "idle"
    /\ inferenceAdapter = NullAdapter
    /\ nLoads = 0
    /\ before = [inferenceAdapter |-> NullAdapter, inputsLayouts |-> inputsLayouts,
                 modelFile |-> modelFile]
    /\ model = NoModel
    /\ loadSteps = <<>>
    /\ loadReturn = [load |-> 0, status |-> "none"]
    /\ nCompile = 0
    /\ lastCompile = NoCompile
    /\ nInfers = 0
    /\ inputs = NoData
    /\ internalModelData = NoData
    /\ result = EmptyResult
    /\ retVal = NoRetVal
    /\ prepared = NoPrepared
    /\ produced = NoRetVal
    /\ raised = NoRaise
    /\ nAdapterInfer = 0
    /\ adapterCalls = 0
    /\ postCalls = 0
    /\ lastAdapterCall = NoAdapterCall
    /\ inferReturn = [req |-> 0, status |-> "none", value |-> NoRetVal]

\* a wrapper constructed with some model file and no layout configuration
Init ==
    /\ modelFile \in Files
    /\ inputsLayouts = EmptyMap
    /\ initialLayouts = EmptyMap
    /\ InitCommon

Next ==
    \/ Load
    \/ ReadModel
    \/ PrepareInputsOutputs
    \/ SetBatch
    \/ LoadModel
    \/ Preprocess
    \/ AdapterInfer
    \/ Postprocess
    \/ MergeResult

Spec == Init /\ [][Next]_vars

\* a wrapper constructed with any layout configuration
LayoutInit ==
    /\ modelFile = "model.xml"
    /\ inputsLayouts \in LayoutMaps
    /\ initialLayouts = inputsLayouts
    /\ InitCommon

LayoutNext == GetInputLayout

LayoutSpec == LayoutInit /\ [][LayoutNext]_vars

TypeOK == pc \in {"idle", "load_read", "load_hook", "load_batch", "load_compile",
                  "infer_adapter", "infer_post", "infer_merge"}

(* ================================ claims =============================== *)

\* the last getInputLayout call was made on an input without annotated layout
Unannotated == lastCall.valid /\ lastCall.input.layout = EmptyLayout
\* number of entries the configuration held when the last call was made
EntriesBefore == Cardinality(DOMAIN lastCall.mapBefore)

\* C1: getInputLayout on an input with no annotated layout, with two or more
\* configured entries none of which carries the input's name, fails with
\* UndefinedLayoutError instead of returning a layout.
C1_UnlistedNameFails ==
    (Unannotated /\ EntriesBefore >= 2 /\ lastCall.input.name \notin DOMAIN lastCall.mapBefore)
        => lastCall.error = "UndefinedLayoutError"

\* C2: a load that fails with ModelReadError leaves every field of the
\* wrapper, the adapter handle included, as it was before the call, and has
\* submitted no model to the adapter.
C2_FailedLoadLeavesWrapperUntouched ==
    loadReturn.status = "ModelReadError"
        => (Wrapper = before /\ lastCompile.load # nLoads /\ "loadModel" \notin {loadSteps[i] : i \in DOMAIN loadSteps})

\* C3: an infer invocation that returns a result has called the adapter
\* exactly once, no invocation calls it more than once, N invocations make at
\* most N adapter calls, and each call carries the tensors this invocation's
\* preprocess prepared.
C3_OneAdapterCallPerInfer ==
    /\ adapterCalls <= 1
    /\ inferReturn.status = "ok" => adapterCalls = 1
    /\ nAdapterInfer <= nInfers
    /\ adapterCalls >= 1 =>
          /\ lastAdapterCall.req = nInfers
          /\ lastAdapterCall.inputs = prepared.inputs
          /\ lastAdapterCall.inputs.req = nInfers

C3_Witness ==
    /\ inferReturn.status = "ok"
    /\ nInfers >= 2
    /\ nAdapterInfer = nInfers
    /\ lastAdapterCall.inputs.req = nInfers

\* C4: a failure of the adapter's infer reaches the caller as it was thrown:
\* infer has ended, the adapter was called once, postprocess was not called
\* and nothing is returned; a failure of preprocess ends infer before any
\* adapter call.
C4_FailuresPropagate ==
    /\ raised.by = "adapter" =>
          /\ pc # "infer_post" /\ pc # "infer_merge"
          /\ inferReturn.req = nInfers
          /\ inferReturn.status = raised.error
          /\ adapterCalls = 1
          /\ postCalls = 0
          /\ ~inferReturn.value.valid
    /\ raised.by = "preprocess" =>
          /\ inferReturn.status = raised.error
          /\ adapterCalls = 0
          /\ postCalls = 0
          /\ lastAdapterCall.req # nInfers
          /\ ~inferReturn.value.valid

C4_Witness ==
    /\ raised.by = "adapter"
    /\ raised.error = "DeviceError"
    /\ inferReturn.status = "DeviceError"
    /\ pc = "idle"
    /\ nAdapterInfer >= 2

\* C5: for an input whose layout is annotated on the graph, getInputLayout
\* returns that layout whatever the configuration holds, and writes no warning.
C5_AnnotatedLayoutWins ==
    (lastCall.valid /\ lastCall.input.layout # EmptyLayout)
        => (lastCall.layout = lastCall.input.layout /\ lastCall.warned = 0)

C5_Witness ==
    /\ lastCall.valid
    /\ lastCall.input.layout # EmptyLayout
    /\ lastCall.input.name \in DOMAIN lastCall.mapBefore
    /\ lastCall.mapBefore[lastCall.input.name] # lastCall.input.layout
    /\ lastCall.layout = lastCall.input.layout

\* C6 as stated: with exactly one configured entry, every input receives the
\* configured layout.
C6_Original ==
    (lastCall.valid /\ EntriesBefore = 1)
        => lastCall.layout = MapBeginValue(lastCall.mapBefore)

\* C6: with exactly one configured entry, every input that has no annotated
\* layout receives the configured layout, whatever its name.
C6_SingleEntryForUnannotated ==
    (Unannotated /\ EntriesBefore = 1)
        => lastCall.layout = MapBeginValue(lastCall.mapBefore)

C6_Witness ==
    /\ Unannotated
    /\ EntriesBefore = 1
    /\ lastCall.input.name \notin DOMAIN lastCall.mapBefore
    /\ lastCall.layout = MapBeginValue(lastCall.mapBefore)

\* C7 as stated: with an empty configuration every input gets the
\* shape-derived layout and one warning; otherwise no warning is written.
C7_Original ==
    lastCall.valid =>
        IF EntriesBefore = 0
        THEN lastCall.layout = getLayoutFromShape(lastCall.input.shape) /\ lastCall.warned = 1
        ELSE lastCall.warned = 0

\* C7: with an empty configuration every input that has no annotated layout
\* gets the shape-derived layout and exactly one warning per call; in every
\* other case (a non-empty configuration, or an annotated input) no warning
\* is written.
C7_AutoDetectForUnannotated ==
    /\ lastCall.valid =>
          IF lastCall.input.layout = EmptyLayout /\ EntriesBefore = 0
          THEN lastCall.layout = getLayoutFromShape(lastCall.input.shape) /\ lastCall.warned = 1
          ELSE lastCall.warned = 0
    /\ warnings <= calls

C7_Witness ==
    /\ Unannotated
    /\ EntriesBefore = 0
    /\ lastCall.layout = "NHWC"
    /\ lastCall.warned = 1
    /\ warnings >= 2

LoadOrder == <<"read_model", "prepareInputsOutputs", "set_batch", "loadModel">>
IsPrefix(s, t) == Len(s) <= Len(t) /\ \A i \in 1..Len(s) : s[i] = t[i]

\* C9: a load reads the model, runs the hook, forces the batch size to 1 and
\* only then submits the model for compilation on "AUTO", each step at most
\* once; a model an adapter receives has passed the hook and has batch size
\* 1; a failure in an earlier step means no compilation is requested.
C9_LoadOrder ==
    /\ IsPrefix(loadSteps, LoadOrder)
    /\ nCompile <= nLoads
    /\ lastCompile.load > 0 =>
          /\ lastCompile.model.valid
          /\ lastCompile.model.hooked
          /\ lastCompile.model.batch = 1
          /\ lastCompile.device = "AUTO"
    /\ loadReturn.status \in {"ModelReadError", "HookError", "SetBatchError"} =>
          /\ lastCompile.load # nLoads
          /\ Len(loadSteps) < Len(LoadOrder)

C9_Witness ==
    /\ loadReturn.status = "ok"
    /\ loadSteps = LoadOrder
    /\ lastCompile.load = nLoads
    /\ nLoads >= 2
    /\ lastCompile.model.batch = 1

\* C10: getInputLayout never changes the layout configuration: after any
\* sequence of calls inputsLayouts has the keys and values it started with.
C10_ConfigurationUnchanged == inputsLayouts = initialLayouts
====
